---- MODULE Spec2Model ----
(***************************************************************************)
(* eslint-progress-bar: argument interpretation (findUnsupportedOptions,   *)
(* extractPatterns, parseESLintOptions), the progress-display decision     *)
(* (shouldShowProgress), the enhanced path (runWithAPI), the fallback      *)
(* subprocess (runWithSpawn) and the entry point (runESLint).              *)
(*                                                                         *)
(* Tokens are real strings; startsWith / includes / split are computed on  *)
(* their characters.                                                       *)
(***************************************************************************)
EXTENDS Integers, Sequences, FiniteSets, TLC

VARIABLES
    args,       \* string[]: the argument tokens of the invocation
    fn,         \* which exported pure function the harness is running
    loop,       \* that function's loop locals (i, skipNext, accumulator)
    ret,        \* <<v>> once that function has returned v, <<>> while it runs
    isTTY,      \* process.stderr.isTTY: "true", "false" or "undefined"
    env,        \* process.env restricted to the variables the program reads
    pc,         \* position of runESLint / runWithAPI / runWithSpawn
    eslint,     \* the ESLint instance of runWithAPI (NoEngine before construction)
    api,        \* the locals of runWithAPI, dropped when it returns
    bar,        \* the progress bar: wrapper flag and the cli-progress widget
    errOut,     \* what was written to process.stderr, in order
    stdOut,     \* what was written to process.stdout, in order
    used,       \* the external operations invoked so far
    calls,      \* those operations in order, each with its argument and outcome
    lintLog,    \* the lintFiles calls that returned: the argument of each
    fixCalls,   \* number of ESLint.outputFixes calls that returned
    thrown,     \* the failures raised so far, by origin
    child,      \* the fallback subprocess and the promise of runWithSpawn
    apiResult,  \* what runWithAPI returned to runESLint
    exitCode    \* <<n>> once runESLint has returned n

(***************************************************************************)
(* Bounds                                                                  *)
(***************************************************************************)
MaxArgs == 3
MaxCount == 3       \* largest error / warning total handed to calculateExitCode
MaxFiles == 41      \* largest number of files discovery returns
MaxChunks == 1      \* data events the fallback subprocess emits, both streams together

(***************************************************************************)
(* String primitives (String.prototype.startsWith / includes / split)      *)
(***************************************************************************)
StartsWith(s, p) == Len(s) >= Len(p) /\ SubSeq(s, 1, Len(p)) = p

Includes(s, c) == \E k \in 1..Len(s) : SubSeq(s, k, k) = c

IndexOf(s, c) ==
    IF Includes(s, c)
    THEN CHOOSE k \in 1..Len(s) :
            /\ SubSeq(s, k, k) = c
            /\ \A m \in 1..(k - 1) : SubSeq(s, m, m) # c
    ELSE 0

\* s.split(c)[0]: the text before the first c (all of s when c is absent)
SplitHead(s, c) == IF Includes(s, c) THEN SubSeq(s, 1, IndexOf(s, c) - 1) ELSE s

Range(q) == {q[k] : k \in 1..Len(q)}

EndsWith(s, p) == Len(s) >= Len(p) /\ SubSeq(s, Len(s) - Len(p) + 1, Len(s)) = p

\* s.split(c) for a one-character separator c
RECURSIVE Split(_, _)
Split(s, c) ==
    IF Includes(s, c)
    THEN <<SubSeq(s, 1, IndexOf(s, c) - 1)>>
         \o Split(SubSeq(s, IndexOf(s, c) + 1, Len(s)), c)
    ELSE <<s>>

\* JavaScript values that are not strings
Undefined == "<undefined>"
Null == [kind |-> "null", val |-> 0]
NaN == [kind |-> "NaN", val |-> 0]
Num(n) == [kind |-> "int", val |-> n]

\* args[k] as JavaScript reads it: undefined past the end
Arg(a, k) == IF k <= Len(a) THEN a[k] ELSE Undefined

(***************************************************************************)
(* parseInt(s, 10): optional blanks, optional sign, the longest run of     *)
(* decimal digits; NaN when there is no digit (also for undefined)         *)
(***************************************************************************)
DecimalDigits == <<"0", "1", "2", "3", "4", "5", "6", "7", "8", "9">>

IsDigit(c) == \E d \in 1..10 : DecimalDigits[d] = c

DigitValue(c) == (CHOOSE d \in 1..10 : DecimalDigits[d] = c) - 1

RECURSIVE SkipBlanks(_, _)
SkipBlanks(s, k) ==
    IF k <= Len(s) /\ SubSeq(s, k, k) = " " THEN SkipBlanks(s, k + 1) ELSE k

RECURSIVE DigitsEnd(_, _)
DigitsEnd(s, k) ==
    IF k <= Len(s) /\ IsDigit(SubSeq(s, k, k)) THEN DigitsEnd(s, k + 1) ELSE k

\* the value of the digits s[from .. to-1]
RECURSIVE DigitsValue(_, _, _)
DigitsValue(s, from, to) ==
    IF to <= from THEN 0
    ELSE 10 * DigitsValue(s, from, to - 1) + DigitValue(SubSeq(s, to - 1, to - 1))

ParseInt(s) ==
    IF s = Undefined THEN NaN
    ELSE LET b0 == SkipBlanks(s, 1)
             neg == b0 <= Len(s) /\ SubSeq(s, b0, b0) = "-"
             pos == b0 <= Len(s) /\ SubSeq(s, b0, b0) = "+"
             b == IF neg \/ pos THEN b0 + 1 ELSE b0
             e == DigitsEnd(s, b)
         IN  IF e = b THEN NaN
             ELSE Num((IF neg THEN -1 ELSE 1) * DigitsValue(s, b, e))

(***************************************************************************)
(* Option vocabularies                                                     *)
(***************************************************************************)
optionsWithValues ==
    {"-c", "--config", "--env", "--ext", "-f", "--format",
     "--parser", "--parser-options", "--resolve-plugins-relative-to",
     "--rulesdir", "--plugin", "--rule", "-o", "--output-file",
     "--ignore-path", "--max-warnings", "--cache-location", "--cache-strategy"}

SUPPORTED_FLAGS ==
    {"--fix", "--fix-dry-run", "--cache", "--no-cache",
     "--no-error-on-unmatched-pattern"}

SUPPORTED_OPTIONS_WITH_VALUES ==
    {"-c", "--config", "--cache-location", "--cache-strategy",
     "--max-warnings", "-f", "--format", "--ext", "--rule"}

(***************************************************************************)
(* extractPatterns                                                         *)
(***************************************************************************)
ExtractPatternsInit == [i |-> 1, skipNext |-> FALSE, patterns |-> <<>>]

\* extractPatterns with a value-taking option that forgets to skip its value
ExtractPatternsBodyNoSkip(st, a) ==
    LET arg == a[st.i]
        nxt == [st EXCEPT !.i = st.i + 1]
    IN  IF StartsWith(arg, "-") THEN nxt
        ELSE [nxt EXCEPT !.patterns = Append(@, arg)]

\* one iteration of the for loop, on args[i] (1-based here)
ExtractPatternsBody(st, a) ==
    LET arg == a[st.i]
        nxt == [st EXCEPT !.i = st.i + 1]
    IN  IF st.skipNext THEN [nxt EXCEPT !.skipNext = FALSE]
        ELSE IF StartsWith(arg, "-")
             THEN IF arg \in optionsWithValues
                  THEN [nxt EXCEPT !.skipNext = TRUE]
                  ELSE nxt
             ELSE [nxt EXCEPT !.patterns = Append(@, arg)]

\* extractPatterns returning the possibly empty accumulator
ExtractPatternsResultNoDefault(st) == st.patterns

ExtractPatternsResult(st) ==
    IF Len(st.patterns) > 0 THEN st.patterns ELSE <<".">>

RECURSIVE ExtractPatternsLoop(_, _)
ExtractPatternsLoop(st, a) ==
    IF st.i > Len(a) THEN st ELSE ExtractPatternsLoop(ExtractPatternsBody(st, a), a)

extractPatterns(a) == ExtractPatternsResult(ExtractPatternsLoop(ExtractPatternsInit, a))

(***************************************************************************)
(* findUnsupportedOptions                                                  *)
(***************************************************************************)
FindUnsupportedInit == [i |-> 1, skipNext |-> FALSE, unsupported |-> <<>>]

\* findUnsupportedOptions reporting the whole token and always skipping the
\* token after an unknown option
FindUnsupportedBodyWholeArg(st, a) ==
    LET arg == a[st.i]
        nxt == [st EXCEPT !.i = st.i + 1]
    IN  IF st.skipNext THEN [nxt EXCEPT !.skipNext = FALSE]
        ELSE IF ~StartsWith(arg, "-") THEN nxt
        ELSE LET optionName == IF Includes(arg, "=") THEN SplitHead(arg, "=") ELSE arg
             IN  IF optionName \in SUPPORTED_FLAGS THEN nxt
                 ELSE IF optionName \in SUPPORTED_OPTIONS_WITH_VALUES
                      THEN IF ~Includes(arg, "=")
                           THEN [nxt EXCEPT !.skipNext = TRUE]
                           ELSE nxt
                      ELSE [nxt EXCEPT !.unsupported = Append(@, arg),
                                       !.skipNext = TRUE]

\* one iteration of the for loop, on args[i] (1-based here)
FindUnsupportedBody(st, a) ==
    LET arg == a[st.i]
        nxt == [st EXCEPT !.i = st.i + 1]
    IN  IF st.skipNext THEN [nxt EXCEPT !.skipNext = FALSE]
        ELSE IF ~StartsWith(arg, "-") THEN nxt
        ELSE LET optionName == IF Includes(arg, "=") THEN SplitHead(arg, "=") ELSE arg
             IN  IF optionName \in SUPPORTED_FLAGS THEN nxt
                 ELSE IF optionName \in SUPPORTED_OPTIONS_WITH_VALUES
                      THEN IF ~Includes(arg, "=")
                           THEN [nxt EXCEPT !.skipNext = TRUE]
                           ELSE nxt
                      ELSE [nxt EXCEPT
                              !.unsupported = Append(@, optionName),
                              !.skipNext = (st.i + 1 <= Len(a)
                                            /\ ~StartsWith(a[st.i + 1], "-"))]

RECURSIVE FindUnsupportedLoop(_, _)
FindUnsupportedLoop(st, a) ==
    IF st.i > Len(a) THEN st ELSE FindUnsupportedLoop(FindUnsupportedBody(st, a), a)

findUnsupportedOptions(a) == FindUnsupportedLoop(FindUnsupportedInit, a).unsupported


(***************************************************************************)
(* parseRuleValue and parseESLintOptions                                   *)
(***************************************************************************)
DEFAULT_EXTENSIONS == <<".js", ".jsx", ".ts", ".tsx", ".mjs", ".cjs", ".mts", ".cts">>

\* JSON.parse on a rule configuration: the text of an array literal parses, a
\* text that does not close its bracket throws
JsonParses(text) == StartsWith(text, "[") /\ EndsWith(text, "]")

\* <<>> for null, <<[name, config]>> otherwise
parseRuleValue(value) ==
    LET colonIndex == IndexOf(value, ":")
        name == SubSeq(value, 1, colonIndex - 1)
        configStr == SubSeq(value, colonIndex + 1, Len(value))
        severity == IF configStr = "off" THEN Num(0)
                    ELSE IF configStr = "warn" THEN Num(1)
                    ELSE IF configStr = "error" THEN Num(2)
                    ELSE ParseInt(configStr)
    IN  IF colonIndex = 0 THEN <<>>
        ELSE IF StartsWith(configStr, "[")
             THEN IF JsonParses(configStr)
                  THEN <<[name |-> name, config |-> [kind |-> "json", text |-> configStr]]>>
                  ELSE <<[name |-> name, config |-> [kind |-> "string", text |-> configStr]]>>
        ELSE IF severity = NaN
             THEN <<[name |-> name, config |-> [kind |-> "string", text |-> configStr]]>>
             ELSE <<[name |-> name, config |-> severity]>>

\* an options object: every key holds <<>> (absent) or <<value>>
NoESLintOptions ==
    [fix |-> <<>>, overrideConfigFile |-> <<>>, cache |-> <<>>, cacheLocation |-> <<>>,
     cacheStrategy |-> <<>>, errorOnUnmatchedPattern |-> <<>>, overrideConfig |-> <<>>]

ParseOptionsInit ==
    [i |-> 1, eslintOptions |-> NoESLintOptions, maxWarnings |-> Null,
     format |-> "stylish", extensions |-> <<>>, rules |-> <<>>, threw |-> FALSE]

\* e.startsWith(".") ? e : `.${e}` over extArg.split(",")
NormalizeExtensions(extArg) ==
    LET parts == Split(extArg, ",")
    IN  [k \in 1..Len(parts) |->
            IF StartsWith(parts[k], ".") THEN parts[k] ELSE "." \o parts[k]]

\* rules[name] = config: rules is the sequence of [name, config] in key order
SetRule(rules, parsed) ==
    IF \E k \in 1..Len(rules) : rules[k].name = parsed.name
    THEN [k \in 1..Len(rules) |->
            IF rules[k].name = parsed.name THEN parsed ELSE rules[k]]
    ELSE Append(rules, parsed)

\* one iteration of the for loop: the switch on args[i] (1-based here); a value
\* option reads args[++i], which is undefined past the end
ParseOptionsBody(st, a) ==
    LET arg == a[st.i]
        value == Arg(a, st.i + 1)
        flag == [st EXCEPT !.i = st.i + 1]
        valued == [st EXCEPT !.i = st.i + 2]
    IN  CASE arg \in {"--fix", "--fix-dry-run"} ->
               [flag EXCEPT !.eslintOptions.fix = <<TRUE>>]
          [] arg \in {"-c", "--config"} ->
               [valued EXCEPT !.eslintOptions.overrideConfigFile = <<value>>]
          [] arg = "--cache" -> [flag EXCEPT !.eslintOptions.cache = <<TRUE>>]
          [] arg = "--no-cache" -> [flag EXCEPT !.eslintOptions.cache = <<FALSE>>]
          [] arg = "--cache-location" ->
               [valued EXCEPT !.eslintOptions.cacheLocation = <<value>>]
          [] arg = "--cache-strategy" ->
               [valued EXCEPT !.eslintOptions.cacheStrategy = <<value>>]
          [] arg = "--no-error-on-unmatched-pattern" ->
               [flag EXCEPT !.eslintOptions.errorOnUnmatchedPattern = <<FALSE>>]
          [] arg = "--max-warnings" -> [valued EXCEPT !.maxWarnings = ParseInt(value)]
          [] arg \in {"-f", "--format"} -> [valued EXCEPT !.format = value]
          [] arg = "--ext" ->
               IF value = Undefined THEN [valued EXCEPT !.threw = TRUE]
               ELSE [valued EXCEPT !.extensions = NormalizeExtensions(value)]
          [] arg = "--rule" ->
               IF value = Undefined THEN [valued EXCEPT !.threw = TRUE]
               ELSE IF parseRuleValue(value) = <<>> THEN valued
               ELSE [valued EXCEPT !.rules = SetRule(@, parseRuleValue(value)[1])]
          [] OTHER -> flag

RECURSIVE ParseOptionsLoop(_, _)
ParseOptionsLoop(st, a) ==
    IF st.threw \/ st.i > Len(a) THEN st
    ELSE ParseOptionsLoop(ParseOptionsBody(st, a), a)

ParseOptionsResult(st) ==
    [eslintOptions |->
        IF Len(st.rules) > 0
        THEN [st.eslintOptions EXCEPT !.overrideConfig = <<[rules |-> st.rules]>>]
        ELSE st.eslintOptions,
     maxWarnings |-> st.maxWarnings,
     format |-> st.format,
     extensions |-> IF Len(st.extensions) > 0 THEN st.extensions ELSE DEFAULT_EXTENSIONS,
     threw |-> st.threw]

\* the returned ParsedOptions; threw marks the TypeError raised on an --ext or
\* --rule that has no value
parseESLintOptions(a) == ParseOptionsResult(ParseOptionsLoop(ParseOptionsInit, a))

(***************************************************************************)
(* shouldShowProgress                                                      *)
(***************************************************************************)
ciVars ==
    <<"CI", "CONTINUOUS_INTEGRATION", "GITHUB_ACTIONS",
      "TRAVIS", "CIRCLECI", "GITLAB_CI", "JENKINS_URL",
      "BUILDKITE", "TF_BUILD">>

CiVarSet == Range(ciVars)

EnvValues == {Undefined, "", "true"}

CiVarsUnset == [v \in CiVarSet \cup {"DEBUG"} |-> Undefined]

fnVars == <<fn, loop, ret>>

runVars == <<pc, eslint, api, bar, errOut, stdOut, used, calls, lintLog, fixCalls, thrown,
             child, apiResult, exitCode>>

vars == <<args, isTTY, env, fnVars, runVars>>

\* JavaScript truthiness of process.env[v]: a string, or undefined when unset
TruthyString(v) == v # Undefined /\ v # ""

\* shouldShowProgress that forgets the last marker variable
shouldShowProgressShortList(tty, e) ==
    IF tty # "true" THEN FALSE
    ELSE ~\E k \in 1..(Len(ciVars) - 1) : TruthyString(e[ciVars[k]])

shouldShowProgress(tty, e) ==
    IF tty # "true" THEN FALSE
    ELSE ~\E k \in 1..Len(ciVars) : TruthyString(e[ciVars[k]])

(***************************************************************************)
(* calculateExitCode                                                       *)
(***************************************************************************)
\* n > m where m is a number or NaN: every comparison with NaN is false
JsGreater(n, m) == m.kind = "int" /\ n > m.val

JsGreaterOrEqual(n, m) == m.kind = "int" /\ n >= m.val

\* calculateExitCode failing already when the warnings reach the threshold
calculateExitCodeAtThreshold(errorCount, warningCount, maxWarnings) ==
    IF errorCount > 0 THEN 1
    ELSE IF maxWarnings # Null /\ JsGreaterOrEqual(warningCount, maxWarnings) THEN 1
    ELSE 0

calculateExitCode(errorCount, warningCount, maxWarnings) ==
    IF errorCount > 0 THEN 1
    ELSE IF maxWarnings # Null /\ JsGreater(warningCount, maxWarnings) THEN 1
    ELSE 0

(***************************************************************************)
(* The external collaborators: the file system seen through globby, the    *)
(* ESLint engine, the cli-progress widget                                  *)
(***************************************************************************)
BATCH_SIZE == 20

AllFiles == 1..MaxFiles

\* An ESLint instance, by what it answers: the files its ignore rules exclude
\* and the files it reports a warning or an error for
NoEngine == [live |-> FALSE, ignored |-> {}, warnings |-> {}, errors |-> {}]

Engines ==
    {[live |-> TRUE, ignored |-> {}, warnings |-> {}, errors |-> {}],
     [live |-> TRUE, ignored |-> AllFiles, warnings |-> {}, errors |-> {}],
     [live |-> TRUE, ignored |-> {2}, warnings |-> {1, 3}, errors |-> {}],
     [live |-> TRUE, ignored |-> {}, warnings |-> {1}, errors |-> {BATCH_SIZE + 1}]}

LintResult(file, errorCount, warningCount) ==
    [filePath |-> file, errorCount |-> errorCount, warningCount |-> warningCount]

\* eslint.lintFiles(batch) on discovered files: one result per file, in order
LintResultsFor(engine, batch) ==
    [k \in 1..Len(batch) |->
        LintResult(batch[k],
                   IF batch[k] \in engine.errors THEN 1 ELSE 0,
                   IF batch[k] \in engine.warnings THEN 1 ELSE 0)]

\* eslint.lintFiles(patterns): the engine resolves the patterns by itself
\* (file 0 stands for a file only the engine finds)
PatternResults == {<<>>, <<LintResult(0, 1, 0)>>, <<LintResult(0, 0, 2)>>}

\* results.reduce((sum, r) => sum + r.errorCount, 0)
RECURSIVE SumErrors(_)
SumErrors(results) ==
    IF results = <<>> THEN 0
    ELSE results[1].errorCount + SumErrors(Tail(results))

RECURSIVE SumWarnings(_)
SumWarnings(results) ==
    IF results = <<>> THEN 0
    ELSE results[1].warningCount + SumWarnings(Tail(results))

\* formatter.format(results): text is a sequence of chunks, <<>> the empty
\* string; the rendering depends on the formatter and on all the results
FormatResults(format, results) ==
    IF SumErrors(results) + SumWarnings(results) = 0 THEN <<>>
    ELSE <<[formatter |-> format, results |-> results]>>

\* stream.write(text) guarded by `if (text)`
WriteIfAny(stream, text) == stream \o text

\* unsupported.join(", ")
RECURSIVE Join(_, _)
Join(q, sep) ==
    IF q = <<>> THEN ""
    ELSE IF Len(q) = 1 THEN q[1]
    ELSE q[1] \o sep \o Join(Tail(q), sep)

(***************************************************************************)
(* getFilesToLint: the glob patterns handed to globby                      *)
(***************************************************************************)
RECURSIVE FlatMap(_, _)
FlatMap(patterns, extensions) ==
    IF patterns = <<>> THEN <<>>
    ELSE LET pattern == patterns[1]
         IN  (IF Includes(pattern, "*")
                 \/ \E k \in 1..Len(extensions) : EndsWith(pattern, extensions[k])
              THEN <<pattern>>
              ELSE [k \in 1..Len(extensions) |-> pattern \o "/**/*" \o extensions[k]])
             \o FlatMap(Tail(patterns), extensions)

globPatterns(patterns, extensions) == FlatMap(patterns, extensions)

(***************************************************************************)
(* createProgressBar: the wrapper (kind, started) around the cli-progress  *)
(* widget (active, total, value); reported sums what increment was given   *)
(***************************************************************************)
NoBar ==
    [kind |-> "none", started |-> FALSE, active |-> FALSE, total |-> 0, value |-> 0,
     reported |-> 0, stops |-> 0]

createProgressBar(tty, e) ==
    [NoBar EXCEPT !.kind = IF shouldShowProgress(tty, e) THEN "bar" ELSE "noop"]

BarStart(b, total) ==
    IF b.kind = "bar" /\ total > 0
    THEN [b EXCEPT !.started = TRUE, !.active = TRUE, !.total = total, !.value = 0]
    ELSE b

\* increment advancing by the full batch size whatever the chunk holds
BarIncrementFullBatch(b, count) ==
    [b EXCEPT !.reported = @ + BATCH_SIZE,
              !.value = IF b.kind = "bar" /\ b.started THEN @ + BATCH_SIZE ELSE @]

BarIncrement(b, count) ==
    [b EXCEPT !.reported = @ + count,
              !.value = IF b.kind = "bar" /\ b.started THEN @ + count ELSE @]

BarStop(b) ==
    [b EXCEPT !.stops = @ + 1,
              !.active = IF b.kind = "bar" /\ b.started THEN FALSE ELSE @,
              !.started = FALSE]

(***************************************************************************)
(* runWithAPI                                                              *)
(***************************************************************************)
NoLocals ==
    [parsed |-> <<>>, patterns |-> <<>>, showProgress |-> FALSE, globs |-> <<>>,
     candidateFiles |-> <<>>, files |-> <<>>, k |-> 1, i |-> 0, emptyCase |-> FALSE,
     allResults |-> <<>>, format |-> <<>>]

NoChild ==
    [spawned |-> FALSE, argv |-> <<>>, stdout |-> <<>>, stderr |-> <<>>,
     outData |-> 0, errData |-> 0, closed |-> FALSE, errored |-> FALSE,
     events |-> <<>>, settled |-> FALSE, resolves |-> 0,
     result |-> [exitCode |-> 0, output |-> <<>>, errorOutput |-> <<>>]]

Pending == [kind |-> "pending"]

RunResult(code, output, errorOutput) ==
    [kind |-> "result", exitCode |-> code, output |-> output, errorOutput |-> errorOutput]

NullResult == [kind |-> "null"]

\* files.slice(i, i + BATCH_SIZE) one file short
BatchOfShort(files, i) ==
    SubSeq(files, i + 1, IF i + BATCH_SIZE - 1 < Len(files)
                         THEN i + BATCH_SIZE - 1 ELSE Len(files))

\* chunks of BATCH_SIZE only while progress is displayed, else all the rest at once
BatchOfWhenDisplayed(files, i) ==
    SubSeq(files, i + 1, IF api.showProgress /\ i + BATCH_SIZE < Len(files)
                         THEN i + BATCH_SIZE ELSE Len(files))

\* files.slice(i, i + BATCH_SIZE), i counted from 0 as in the source
BatchOf(files, i) ==
    SubSeq(files, i + 1, IF i + BATCH_SIZE < Len(files)
                         THEN i + BATCH_SIZE ELSE Len(files))


\* one external operation as runWithAPI / runWithSpawn invoked it: what it was
\* given (patterns, files, results, options) and what came back (ok is FALSE
\* when it threw or rejected; found, ignored, produced, text are its value)
Call(op) ==
    [op |-> op, patterns |-> <<>>, files |-> <<>>, given |-> <<>>, options |-> <<>>,
     ok |-> TRUE, found |-> <<>>, ignored |-> FALSE, produced |-> <<>>, text |-> <<>>]

Failed(c) == [c EXCEPT !.ok = FALSE]

\* the failure propagates to the caller of runESLint
Rethrow(origin) ==
    /\ thrown' = Append(thrown, origin)
    /\ pc' = "raised"
    /\ UNCHANGED <<apiResult, api, eslint, errOut>>

\* a failure inside the try block: the catch block logs it when DEBUG is set and
\* returns null; the locals of runWithAPI are gone with the return
CatchReturnNull(origin) ==
    /\ thrown' = Append(thrown, origin)
    /\ errOut' = IF TruthyString(env["DEBUG"])
                 THEN Append(errOut, "[eslint-progress-bar] ESLint API error:")
                 ELSE errOut
    /\ apiResult' = NullResult
    /\ api' = NoLocals
    /\ eslint' = NoEngine
    /\ pc' = "apiReturned"

\* the widget outlives the wrapper object that runWithAPI held
DropBar(b) == [b EXCEPT !.kind = "none", !.total = 0, !.value = 0, !.reported = 0]

\* runESLint that warns about unsupported options and still takes the API path
RunESLintStartWarnOnly ==
    /\ pc = "start"
    /\ LET unsupported == findUnsupportedOptions(args)
       IN  errOut' = IF Len(unsupported) > 0
                     THEN Append(errOut,
                            "Unsupported option" \o (IF Len(unsupported) > 1 THEN "s" ELSE "")
                            \o ": " \o Join(unsupported, ", "))
                     ELSE errOut
    /\ pc' = "loadESLint"
    /\ UNCHANGED <<args, isTTY, env, fnVars, eslint, api, bar, stdOut, used, calls, lintLog,
                   fixCalls, thrown, child, apiResult, exitCode>>

\* runESLint, lines 350-356 and 364: the gate
RunESLintStart ==
    /\ pc = "start"
    /\ LET unsupported == findUnsupportedOptions(args)
       IN  IF Len(unsupported) > 0
           THEN /\ errOut' = Append(errOut,
                        "Unsupported option" \o (IF Len(unsupported) > 1 THEN "s" ELSE "")
                        \o ": " \o Join(unsupported, ", "))
                /\ pc' = "spawn"
           ELSE /\ pc' = "loadESLint"
                /\ UNCHANGED errOut
    /\ UNCHANGED <<args, isTTY, env, fnVars, eslint, api, bar, stdOut, used, calls, lintLog,
                   fixCalls, thrown, child, apiResult, exitCode>>

\* loadESLint and the null check of runWithAPI
LoadESLint ==
    /\ pc = "loadESLint"
    /\ used' = used \cup {"import"}
    /\ \/ /\ pc' = "setup"
          /\ calls' = Append(calls, Call("import"))
          /\ UNCHANGED <<apiResult, thrown>>
       \/ /\ thrown' = Append(thrown, "import")
          /\ calls' = Append(calls, Failed(Call("import")))
          /\ apiResult' = NullResult
          /\ pc' = "apiReturned"
    /\ UNCHANGED <<args, isTTY, env, fnVars, eslint, api, bar, errOut, stdOut, lintLog,
                   fixCalls, child, exitCode>>

\* lines 223-231 and the synchronous head of getFilesToLint
Setup ==
    /\ pc = "setup"
    /\ LET parsed == parseESLintOptions(args)
           patterns == extractPatterns(args)
           showProgress == shouldShowProgress(isTTY, env)
       IN  \/ /\ parsed.threw
              /\ CatchReturnNull("parseESLintOptions")
              /\ UNCHANGED <<used, calls>>
           \/ /\ ~parsed.threw
              /\ used' = used \cup {"new ESLint"}
              /\ \/ /\ CatchReturnNull("new ESLint")
                    /\ calls' = Append(calls, Failed([Call("new ESLint") EXCEPT
                                                      !.options = <<parsed.eslintOptions>>]))
                 \/ /\ eslint' \in Engines
                    /\ calls' = Append(calls, [Call("new ESLint") EXCEPT
                                               !.options = <<parsed.eslintOptions>>])
                    /\ api' = [NoLocals EXCEPT
                                 !.parsed = <<parsed>>,
                                 !.patterns = patterns,
                                 !.showProgress = showProgress,
                                 !.globs = globPatterns(patterns, parsed.extensions)]
                    /\ errOut' = IF showProgress
                                 THEN Append(errOut, "Discovering files...")
                                 ELSE errOut
                    /\ pc' = "discover"
                    /\ UNCHANGED <<apiResult, thrown>>
    /\ UNCHANGED <<args, isTTY, env, fnVars, bar, stdOut, lintLog, fixCalls, child,
                   exitCode>>

\* how many files globby finds: none, a few, around one chunk, up to MaxFiles
FileCounts ==
    {0, 1, 2, 3, BATCH_SIZE - 1, BATCH_SIZE, BATCH_SIZE + 1, MaxFiles - 1, MaxFiles}

\* getFilesToLint: globby resolves with the files found, or rejects and the
\* catch turns that into an empty list
Discover ==
    /\ pc = "discover"
    /\ used' = used \cup {"globby"}
    /\ \/ /\ \E m \in FileCounts :
                /\ api' = [api EXCEPT !.candidateFiles = [k \in 1..m |-> k]]
                /\ calls' = Append(calls, [Call("globby") EXCEPT
                                             !.patterns = api.globs,
                                             !.found = [k \in 1..m |-> k]])
          /\ UNCHANGED thrown
       \/ /\ api' = [api EXCEPT !.candidateFiles = <<>>]
          /\ calls' = Append(calls, Failed([Call("globby") EXCEPT !.patterns = api.globs]))
          /\ thrown' = Append(thrown, "globby")
    /\ pc' = "filter"
    /\ UNCHANGED <<args, isTTY, env, fnVars, eslint, bar, errOut, stdOut, lintLog,
                   fixCalls, child, apiResult, exitCode>>

\* one iteration of the ignore filter
IsPathIgnored ==
    /\ pc = "filter"
    /\ api.k <= Len(api.candidateFiles)
    /\ used' = used \cup {"isPathIgnored"}
    /\ \/ /\ CatchReturnNull("isPathIgnored")
          /\ calls' = Append(calls, Failed([Call("isPathIgnored") EXCEPT
                                              !.files = <<api.candidateFiles[api.k]>>]))
       \/ /\ LET file == api.candidateFiles[api.k]
             IN  /\ api' = [api EXCEPT
                              !.files = IF file \in eslint.ignored THEN @
                                        ELSE Append(@, file),
                              !.k = @ + 1]
                 /\ calls' = Append(calls, [Call("isPathIgnored") EXCEPT
                                              !.files = <<file>>,
                                              !.ignored = file \in eslint.ignored])
          /\ UNCHANGED <<pc, eslint, errOut, apiResult, thrown>>
    /\ UNCHANGED <<args, isTTY, env, fnVars, bar, stdOut, lintLog, fixCalls, child,
                   exitCode>>

\* lines 242-248, then 262-266 when there are files
FilterDone ==
    /\ pc = "filter"
    /\ api.k > Len(api.candidateFiles)
    /\ errOut' = IF api.showProgress THEN Append(errOut, "(clear)") ELSE errOut
    /\ IF Len(api.files) = 0
       THEN /\ api' = [api EXCEPT !.emptyCase = TRUE]
            /\ pc' = "lintEmpty"
            /\ UNCHANGED bar
       ELSE /\ bar' = BarStart(createProgressBar(isTTY, env), Len(api.files))
            /\ pc' = "batch"
            /\ UNCHANGED api
    /\ UNCHANGED <<args, isTTY, env, fnVars, eslint, stdOut, used, calls, lintLog, fixCalls,
                   thrown, child, apiResult, exitCode>>

\* the empty case handing the engine the empty file list instead of the patterns
LintEmptyWithFiles ==
    /\ pc = "lintEmpty"
    /\ used' = used \cup {"lintFiles"}
    /\ \/ /\ CatchReturnNull("lintFiles")
          /\ calls' = Append(calls, Failed([Call("lintFiles") EXCEPT !.files = api.files]))
          /\ UNCHANGED lintLog
       \/ /\ \E results \in PatternResults :
                /\ api' = [api EXCEPT !.allResults = results]
                /\ calls' = Append(calls, [Call("lintFiles") EXCEPT
                                             !.files = api.files,
                                             !.produced = results])
          /\ lintLog' = Append(lintLog, api.files)
          /\ pc' = "loadFormatter"
          /\ UNCHANGED <<eslint, errOut, apiResult, thrown>>
    /\ UNCHANGED <<args, isTTY, env, fnVars, bar, stdOut, fixCalls, child, exitCode>>

\* line 250: the engine's own run on the patterns
LintEmpty ==
    /\ pc = "lintEmpty"
    /\ used' = used \cup {"lintFiles"}
    /\ \/ /\ CatchReturnNull("lintFiles")
          /\ calls' = Append(calls, Failed([Call("lintFiles") EXCEPT
                                              !.patterns = api.patterns]))
          /\ UNCHANGED lintLog
       \/ /\ \E results \in PatternResults :
                /\ api' = [api EXCEPT !.allResults = results]
                /\ calls' = Append(calls, [Call("lintFiles") EXCEPT
                                             !.patterns = api.patterns,
                                             !.produced = results])
          /\ lintLog' = Append(lintLog, api.patterns)
          /\ pc' = "loadFormatter"
          /\ UNCHANGED <<eslint, errOut, apiResult, thrown>>
    /\ UNCHANGED <<args, isTTY, env, fnVars, bar, stdOut, fixCalls, child, exitCode>>

\* one iteration of the batch loop, lines 269-274
LintBatch ==
    /\ pc = "batch"
    /\ api.i < Len(api.files)
    /\ used' = used \cup {"lintFiles"}
    /\ LET batch == BatchOf(api.files, api.i)
       IN  \/ /\ CatchReturnNull("lintFiles")
              /\ calls' = Append(calls, Failed([Call("lintFiles") EXCEPT !.files = batch]))
              /\ bar' = DropBar(bar)
              /\ UNCHANGED lintLog
           \/ /\ calls' = Append(calls, [Call("lintFiles") EXCEPT
                                          !.files = batch,
                                          !.produced = LintResultsFor(eslint, batch)])
              /\ api' = [api EXCEPT
                           !.allResults = @ \o LintResultsFor(eslint, batch),
                           !.i = @ + BATCH_SIZE]
              /\ lintLog' = Append(lintLog, batch)
              /\ bar' = BarIncrement(bar, Len(batch))
              /\ UNCHANGED <<pc, eslint, errOut, apiResult, thrown>>
    /\ UNCHANGED <<args, isTTY, env, fnVars, stdOut, fixCalls, child, exitCode>>

\* lines 276-285: stop the bar, the timing line, the fix test
BatchesDone ==
    /\ pc = "batch"
    /\ api.i >= Len(api.files)
    /\ bar' = BarStop(bar)
    /\ errOut' = IF api.showProgress THEN Append(errOut, "Linted files in") ELSE errOut
    /\ pc' = IF api.parsed[1].eslintOptions.fix = <<TRUE>> THEN "outputFixes"
             ELSE "loadFormatter"
    /\ UNCHANGED <<args, isTTY, env, fnVars, eslint, api, stdOut, used, calls, lintLog,
                   fixCalls, thrown, child, apiResult, exitCode>>

\* line 286
OutputFixes ==
    /\ pc = "outputFixes"
    /\ used' = used \cup {"outputFixes"}
    /\ \/ /\ CatchReturnNull("outputFixes")
          /\ calls' = Append(calls, Failed([Call("outputFixes") EXCEPT
                                              !.given = api.allResults]))
          /\ bar' = DropBar(bar)
          /\ UNCHANGED fixCalls
       \/ /\ fixCalls' = fixCalls + 1
          /\ calls' = Append(calls, [Call("outputFixes") EXCEPT !.given = api.allResults])
          /\ pc' = "loadFormatter"
          /\ UNCHANGED <<eslint, api, bar, errOut, apiResult, thrown>>
    /\ UNCHANGED <<args, isTTY, env, fnVars, stdOut, lintLog, child, exitCode>>

\* lines 251 and 290
LoadFormatter ==
    /\ pc = "loadFormatter"
    /\ used' = used \cup {"loadFormatter"}
    /\ \/ /\ CatchReturnNull("loadFormatter")
          /\ calls' = Append(calls, Failed([Call("loadFormatter") EXCEPT
                                              !.patterns = <<api.parsed[1].format>>]))
          /\ bar' = DropBar(bar)
       \/ /\ api' = [api EXCEPT !.format = <<api.parsed[1].format>>]
          /\ calls' = Append(calls, [Call("loadFormatter") EXCEPT
                                       !.patterns = <<api.parsed[1].format>>])
          /\ pc' = "format"
          /\ UNCHANGED <<eslint, bar, errOut, apiResult, thrown>>
    /\ UNCHANGED <<args, isTTY, env, fnVars, stdOut, lintLog, fixCalls, child, exitCode>>

\* lines 252-259 and 291-299: render, sum, compute the exit code, return
FormatAndReturn ==
    /\ pc = "format"
    /\ used' = used \cup {"format"}
    /\ bar' = DropBar(bar)
    /\ \/ /\ CatchReturnNull("format")
          /\ calls' = Append(calls, Failed([Call("format") EXCEPT
                                              !.given = api.allResults]))
       \/ /\ calls' = Append(calls, [Call("format") EXCEPT
                                       !.given = api.allResults,
                                       !.text = FormatResults(api.format[1],
                                                              api.allResults)])
          /\ apiResult' = RunResult(
                 calculateExitCode(SumErrors(api.allResults), SumWarnings(api.allResults),
                                   api.parsed[1].maxWarnings),
                 FormatResults(api.format[1], api.allResults), <<>>)
          /\ api' = NoLocals
          /\ eslint' = NoEngine
          /\ pc' = "apiReturned"
          /\ UNCHANGED <<errOut, thrown>>
    /\ UNCHANGED <<args, isTTY, env, fnVars, stdOut, lintLog, fixCalls, child, exitCode>>

\* runESLint, lines 365-371
AfterAPI ==
    /\ pc = "apiReturned"
    /\ IF apiResult.kind = "result"
       THEN /\ stdOut' = WriteIfAny(stdOut, apiResult.output)
            /\ errOut' = WriteIfAny(errOut, apiResult.errorOutput)
            /\ exitCode' = <<apiResult.exitCode>>
            /\ pc' = "done"
       ELSE /\ pc' = "spawn"
            /\ UNCHANGED <<stdOut, errOut, exitCode>>
    /\ UNCHANGED <<args, isTTY, env, fnVars, eslint, api, bar, used, calls, lintLog, fixCalls,
                   thrown, child, apiResult>>

(***************************************************************************)
(* runWithSpawn: the subprocess emits data, close and error events; each   *)
(* handler runs to completion; resolve settles the promise once            *)
(***************************************************************************)
ExitCodes == {0, 2}

\* resolve(value) that lets a later call overwrite the settled value
ResolveLast(c, value) ==
    [c EXCEPT !.settled = TRUE, !.resolves = @ + 1, !.result = value]

\* resolve(value): only the first call settles the promise
Resolve(c, value) ==
    IF c.settled THEN c
    ELSE [c EXCEPT !.settled = TRUE, !.resolves = @ + 1, !.result = value]

\* what the subprocess emitted
DataEvent(stream) == [type |-> stream, code |-> Null]

CloseEvent(code) == [type |-> "close", code |-> code]

ErrorEvent == [type |-> "error", code |-> Null]

\* spawn("npx", ["eslint", ...args]) with the original args dropped
SpawnArgvBare(a) == <<"npx", "eslint">>

SpawnArgv(a) == <<"npx", "eslint">> \o a

SpawnChild ==
    /\ pc = "spawn"
    /\ used' = used \cup {"spawn"}
    /\ calls' = Append(calls, [Call("spawn") EXCEPT !.patterns = SpawnArgv(args)])
    /\ child' = [NoChild EXCEPT !.spawned = TRUE, !.argv = SpawnArgv(args)]
    /\ pc' = "awaitChild"
    /\ UNCHANGED <<args, isTTY, env, fnVars, eslint, api, bar, errOut, stdOut, lintLog,
                   fixCalls, thrown, apiResult, exitCode>>

ChildStdoutData ==
    /\ pc = "awaitChild"
    /\ child.outData + child.errData < MaxChunks
    /\ child' = [child EXCEPT !.stdout = Append(@, "out"), !.outData = @ + 1,
                              !.events = Append(@, DataEvent("stdout"))]
    /\ UNCHANGED <<args, isTTY, env, fnVars, pc, eslint, api, bar, errOut, stdOut, used, calls,
                   lintLog, fixCalls, thrown, apiResult, exitCode>>

ChildStderrData ==
    /\ pc = "awaitChild"
    /\ child.outData + child.errData < MaxChunks
    /\ child' = [child EXCEPT !.stderr = Append(@, "err"), !.errData = @ + 1,
                              !.events = Append(@, DataEvent("stderr"))]
    /\ UNCHANGED <<args, isTTY, env, fnVars, pc, eslint, api, bar, errOut, stdOut, used, calls,
                   lintLog, fixCalls, thrown, apiResult, exitCode>>

\* the close handler: code is null when a signal ended the subprocess
ChildClose ==
    /\ pc = "awaitChild"
    /\ ~child.closed
    /\ \E code \in {Num(n) : n \in ExitCodes} \cup {Null} :
          child' = [Resolve(child,
                            RunResult(IF code = Null THEN 1 ELSE code.val,
                                      child.stdout, child.stderr))
                    EXCEPT !.closed = TRUE, !.events = Append(@, CloseEvent(code))]
    /\ UNCHANGED <<args, isTTY, env, fnVars, pc, eslint, api, bar, errOut, stdOut, used, calls,
                   lintLog, fixCalls, thrown, apiResult, exitCode>>

\* the error handler
ChildError ==
    /\ pc = "awaitChild"
    /\ ~child.errored
    /\ child' = [Resolve(child,
                         RunResult(1, <<>>, <<"Failed to spawn: " \o "spawn npx ENOENT">>))
                 EXCEPT !.errored = TRUE, !.events = Append(@, ErrorEvent)]
    /\ UNCHANGED <<args, isTTY, env, fnVars, pc, eslint, api, bar, errOut, stdOut, used, calls,
                   lintLog, fixCalls, thrown, apiResult, exitCode>>

\* runESLint, lines 357-360 and 372-375: the await resumes on the settled value
AfterSpawn ==
    /\ pc = "awaitChild"
    /\ child.settled
    /\ stdOut' = WriteIfAny(stdOut, child.result.output)
    /\ errOut' = WriteIfAny(errOut, child.result.errorOutput)
    /\ exitCode' = <<child.result.exitCode>>
    /\ pc' = "done"
    /\ UNCHANGED <<args, isTTY, env, fnVars, eslint, api, bar, used, calls, lintLog, fixCalls,
                   thrown, child, apiResult>>

(***************************************************************************)
(* The invocations explored                                                *)
(***************************************************************************)
RunArgs ==
    {<<"src">>,
     <<"src", "--fix">>,
     <<"--fix-dry-run", ".">>,
     <<"--max-warnings", "1", "src">>,
     <<"--max-warnings", "x", "src">>,
     <<"src", "--ext">>,
     <<"--quiet", "src">>,
     <<"--parser", "babel", "--fix", "--debug">>}

RunEnvironments ==
    {<<"true", CiVarsUnset>>,
     <<"true", [CiVarsUnset EXCEPT !["CI"] = "true"]>>,
     <<"false", CiVarsUnset>>,
     <<"false", [CiVarsUnset EXCEPT !["DEBUG"] = "1"]>>}

RunIdle ==
    /\ pc = "idle"
    /\ eslint = NoEngine
    /\ api = NoLocals
    /\ bar = NoBar
    /\ errOut = <<>>
    /\ stdOut = <<>>
    /\ used = {}
    /\ calls = <<>>
    /\ lintLog = <<>>
    /\ fixCalls = 0
    /\ thrown = <<>>
    /\ child = NoChild
    /\ apiResult = Pending
    /\ exitCode = <<>>

Init ==
    /\ args \in RunArgs
    /\ \E e \in RunEnvironments : isTTY = e[1] /\ env = e[2]
    /\ fn = "runESLint" /\ loop = <<>> /\ ret = <<>>
    /\ pc = "start"
    /\ eslint = NoEngine
    /\ api = NoLocals
    /\ bar = NoBar
    /\ errOut = <<>>
    /\ stdOut = <<>>
    /\ used = {}
    /\ calls = <<>>
    /\ lintLog = <<>>
    /\ fixCalls = 0
    /\ thrown = <<>>
    /\ child = NoChild
    /\ apiResult = Pending
    /\ exitCode = <<>>

Next ==
    \/ RunESLintStart
    \/ LoadESLint
    \/ Setup
    \/ Discover
    \/ IsPathIgnored
    \/ FilterDone
    \/ LintEmpty
    \/ LintBatch
    \/ BatchesDone
    \/ OutputFixes
    \/ LoadFormatter
    \/ FormatAndReturn
    \/ AfterAPI
    \/ SpawnChild
    \/ ChildStdoutData
    \/ ChildStderrData
    \/ ChildClose
    \/ ChildError
    \/ AfterSpawn

Spec == Init /\ [][Next]_vars

(***************************************************************************)
(* Harness for the exported pure functions: the caller picks a token       *)
(* sequence and a function; the function runs its loop token by token and  *)
(* returns.                                                                *)
(***************************************************************************)
ArgTokens ==
    {"src", ".", "--fix", "-c", "--config=x", "--parser", "--quiet", "--parser=babel"}

SeqsUpTo(S, n) == UNION {[1..k -> S] : k \in 0..n}

Thresholds == {Null, NaN} \cup {Num(n) : n \in -1..MaxCount}

InitArgFns ==
    /\ args \in SeqsUpTo(ArgTokens, MaxArgs)
    /\ fn \in {"extractPatterns", "findUnsupportedOptions", "parseESLintOptions"}
    /\ loop = CASE fn = "extractPatterns" -> ExtractPatternsInit
                [] fn = "findUnsupportedOptions" -> FindUnsupportedInit
                [] fn = "parseESLintOptions" -> ParseOptionsInit
    /\ isTTY = "false" /\ env = CiVarsUnset

InitExitCodeFn ==
    /\ args = <<>>
    /\ fn = "calculateExitCode"
    /\ loop \in [errorCount : 0..MaxCount, warningCount : 0..MaxCount,
                 maxWarnings : Thresholds]
    /\ isTTY = "false" /\ env = CiVarsUnset

InitProgressFn ==
    /\ args = <<>>
    /\ fn = "shouldShowProgress"
    /\ loop = <<>>
    /\ isTTY \in {"true", "false", "undefined"}
    /\ \E e \in [CiVarSet -> EnvValues] :
          env = [v \in CiVarSet \cup {"DEBUG"} |-> IF v = "DEBUG" THEN Undefined ELSE e[v]]

InitFns ==
    /\ ret = <<>>
    /\ RunIdle
    /\ (InitArgFns \/ InitExitCodeFn \/ InitProgressFn)

ExtractPatternsStep ==
    /\ fn = "extractPatterns" /\ ret = <<>>
    /\ loop.i <= Len(args)
    /\ loop' = ExtractPatternsBody(loop, args)
    /\ UNCHANGED <<args, fn, ret, isTTY, env, runVars>>

ExtractPatternsReturn ==
    /\ fn = "extractPatterns" /\ ret = <<>>
    /\ loop.i > Len(args)
    /\ ret' = <<ExtractPatternsResult(loop)>>
    /\ UNCHANGED <<args, fn, loop, isTTY, env, runVars>>

FindUnsupportedStep ==
    /\ fn = "findUnsupportedOptions" /\ ret = <<>>
    /\ loop.i <= Len(args)
    /\ loop' = FindUnsupportedBody(loop, args)
    /\ UNCHANGED <<args, fn, ret, isTTY, env, runVars>>

FindUnsupportedReturn ==
    /\ fn = "findUnsupportedOptions" /\ ret = <<>>
    /\ loop.i > Len(args)
    /\ ret' = <<loop.unsupported>>
    /\ UNCHANGED <<args, fn, loop, isTTY, env, runVars>>

ParseOptionsStep ==
    /\ fn = "parseESLintOptions" /\ ret = <<>>
    /\ ~loop.threw /\ loop.i <= Len(args)
    /\ loop' = ParseOptionsBody(loop, args)
    /\ UNCHANGED <<args, fn, ret, isTTY, env, runVars>>

ParseOptionsReturn ==
    /\ fn = "parseESLintOptions" /\ ret = <<>>
    /\ loop.threw \/ loop.i > Len(args)
    /\ ret' = <<ParseOptionsResult(loop)>>
    /\ UNCHANGED <<args, fn, loop, isTTY, env, runVars>>

CalculateExitCodeCall ==
    /\ fn = "calculateExitCode" /\ ret = <<>>
    /\ ret' = <<calculateExitCode(loop.errorCount, loop.warningCount, loop.maxWarnings)>>
    /\ UNCHANGED <<args, fn, loop, isTTY, env, runVars>>

ShouldShowProgressCall ==
    /\ fn = "shouldShowProgress" /\ ret = <<>>
    /\ ret' = <<shouldShowProgress(isTTY, env)>>
    /\ UNCHANGED <<args, fn, loop, isTTY, env, runVars>>

NextFns ==
    \/ ExtractPatternsStep
    \/ ExtractPatternsReturn
    \/ FindUnsupportedStep
    \/ FindUnsupportedReturn
    \/ ParseOptionsStep
    \/ ParseOptionsReturn
    \/ CalculateExitCodeCall
    \/ ShouldShowProgressCall

SpecFns == InitFns /\ [][NextFns]_vars

(***************************************************************************)
(* Claims about the pure functions (specification SpecArgs)                *)
(***************************************************************************)
Returned(f) == fn = f /\ ret # <<>>

OptionName(tok) == SplitHead(tok, "=")

\* Positions the gate examines, i.e. that no earlier option consumed as a value
RECURSIVE GateExamined(_, _), GateConsumesNext(_, _)
GateExamined(a, k) == k = 1 \/ ~GateConsumesNext(a, k - 1)

GateConsumesNext(a, k) ==
    /\ GateExamined(a, k)
    /\ StartsWith(a[k], "-")
    /\ \/ /\ OptionName(a[k]) \in SUPPORTED_OPTIONS_WITH_VALUES
          /\ ~Includes(a[k], "=")
       \/ /\ OptionName(a[k]) \notin SUPPORTED_FLAGS \cup SUPPORTED_OPTIONS_WITH_VALUES
          /\ k + 1 <= Len(a)
          /\ ~StartsWith(a[k + 1], "-")

GateReports(a, k) ==
    /\ GateExamined(a, k)
    /\ StartsWith(a[k], "-")
    /\ OptionName(a[k]) \notin SUPPORTED_FLAGS \cup SUPPORTED_OPTIONS_WITH_VALUES

RECURSIVE ExpectedUnsupportedFrom(_, _)
ExpectedUnsupportedFrom(a, k) ==
    IF k > Len(a) THEN <<>>
    ELSE (IF GateReports(a, k) THEN <<OptionName(a[k])>> ELSE <<>>)
         \o ExpectedUnsupportedFrom(a, k + 1)

\* C4: findUnsupportedOptions returns, in argument order, the option name of
\* every examined dash-prefixed token outside both supported vocabularies; a
\* supported value-option not in '=value' form consumes the next token whatever
\* it is, an unsupported option consumes it only when it does not start with a
\* dash, and nothing that is not dash-prefixed is ever reported.
C4_FindUnsupportedContract ==
    Returned("findUnsupportedOptions") =>
        /\ ret[1] = ExpectedUnsupportedFrom(args, 1)
        /\ \A k \in 1..Len(ret[1]) : StartsWith(ret[1][k], "-")

\* C4 witness: a run that reported an option although an earlier dash-prefixed
\* token was consumed as a value and therefore not examined.
C4_Witness ==
    /\ Returned("findUnsupportedOptions")
    /\ Len(ret[1]) > 0
    /\ \E k \in 1..Len(args) : ~GateExamined(args, k) /\ StartsWith(args[k], "-")

\* Positions extractPatterns reads (not skipped as the value of an option)
RECURSIVE ExtractExamined(_, _)
ExtractExamined(a, k) ==
    \/ k = 1
    \/ ~(ExtractExamined(a, k - 1) /\ StartsWith(a[k - 1], "-")
         /\ a[k - 1] \in optionsWithValues)

RECURSIVE ExpectedPatternsFrom(_, _)
ExpectedPatternsFrom(a, k) ==
    IF k > Len(a) THEN <<>>
    ELSE (IF ~StartsWith(a[k], "-") /\ ExtractExamined(a, k) THEN <<a[k]>> ELSE <<>>)
         \o ExpectedPatternsFrom(a, k + 1)

UnsupportedValueOptions == optionsWithValues \ SUPPORTED_OPTIONS_WITH_VALUES

\* The loop is about to process the token that directly follows position j,
\* position j holds an unsupported value-taking option and the token is no option
AtValueOfUnsupported(j) ==
    /\ fn = "extractPatterns" /\ ret = <<>>
    /\ loop.i = j + 1 /\ j + 1 <= Len(args)
    /\ args[j] \in UnsupportedValueOptions
    /\ ~StartsWith(args[j + 1], "-")

\* C5 as claimed: whenever an unsupported value-taking option is immediately
\* followed by a non-option token, extractPatterns does not take that token as a
\* pattern.
C5_Original ==
    [][\A j \in 1..Len(args) :
          AtValueOfUnsupported(j) => loop'.patterns = loop.patterns]_vars

\* C5 amended: whenever an unsupported value-taking option that extractPatterns
\* itself reads as an option (it is not the skipped value of a preceding
\* value-taking option) is immediately followed by a non-option token,
\* extractPatterns does not take that token as a pattern.
C5_ValueOfReadOptionSkipped ==
    [][\A j \in 1..Len(args) :
          (AtValueOfUnsupported(j) /\ ExtractExamined(args, j))
              => loop'.patterns = loop.patterns]_vars

\* C5 witness: the loop has just passed the non-option token that follows an
\* unsupported value-taking option read as an option.
C5_Witness ==
    /\ fn = "extractPatterns"
    /\ \E j \in 1..Len(args) :
          /\ loop.i = j + 2
          /\ args[j] \in UnsupportedValueOptions
          /\ ExtractExamined(args, j)
          /\ ~StartsWith(args[j + 1], "-")

\* C6: extractPatterns never returns an empty sequence; it returns, in order,
\* exactly the tokens that neither start with a dash nor directly follow a known
\* value-taking option that was itself read as an option, and <<".">> when there
\* is no such token.
C6_ExtractPatternsContract ==
    Returned("extractPatterns") =>
        /\ ret[1] # <<>>
        /\ ret[1] = IF ExpectedPatternsFrom(args, 1) = <<>>
                    THEN <<".">>
                    ELSE ExpectedPatternsFrom(args, 1)

\* C6 witness: the default pattern is returned although a non-option token was
\* present, because that token was the value of an option.
C6_Witness ==
    /\ Returned("extractPatterns")
    /\ ret[1] = <<".">>
    /\ \E k \in 1..Len(args) : args[k] = "src"

\* C1: the exit code is 1 exactly when the error count is > 0, or a threshold is
\* set and the warning count is strictly greater than it, and 0 otherwise;
\* warnings equal to the threshold give 0 and a NaN threshold never gives 1 by
\* itself.
C1_ExitCodeRule ==
    Returned("calculateExitCode") =>
        LET e == loop.errorCount
            w == loop.warningCount
            m == loop.maxWarnings
        IN  /\ ret[1] \in {0, 1}
            /\ ret[1] = 1 <=> (e > 0 \/ (m.kind = "int" /\ w > m.val))
            /\ (e = 0 /\ m.kind = "int" /\ w = m.val) => ret[1] = 0
            /\ (e = 0 /\ m = NaN) => ret[1] = 0

\* C1 witness: no error and as many warnings as the threshold allows give 0.
C1_Witness ==
    /\ Returned("calculateExitCode")
    /\ loop.errorCount = 0
    /\ loop.maxWarnings = Num(2) /\ loop.warningCount = 2
    /\ ret[1] = 0

ParserExamples ==
    /\ parseESLintOptions(<<"--max-warnings", "10">>).maxWarnings = Num(10)
    /\ parseESLintOptions(<<"--max-warnings", "x">>).maxWarnings = NaN
    /\ parseESLintOptions(<<"--max-warnings">>).maxWarnings = NaN
    /\ parseESLintOptions(<<"--ext", "js,.jsx">>).extensions = <<".js", ".jsx">>
    /\ parseESLintOptions(<<"src", "--fix">>).eslintOptions.fix = <<TRUE>>
    /\ parseESLintOptions(<<"--rule", "no-console:warn", "--rule", "no-debugger:error">>)
          .eslintOptions.overrideConfig
       = <<[rules |-> <<[name |-> "no-console", config |-> Num(1)],
                        [name |-> "no-debugger", config |-> Num(2)]>>]>>
    /\ parseESLintOptions(<<"--ext">>).threw
    /\ parseESLintOptions(<<"-f", "json", "-c">>).format = "json"
    /\ parseESLintOptions(<<"--config=x">>).eslintOptions = NoESLintOptions
    /\ ParseInt("-12px") = Num(-12)

(***************************************************************************)
(* Claims about one invocation of runESLint (specification Spec)           *)
(***************************************************************************)
Running == fn = "runESLint"

FixRequested == parseESLintOptions(args).eslintOptions.fix = <<TRUE>>

UnsupportedWarning ==
    LET unsupported == findUnsupportedOptions(args)
    IN  "Unsupported option" \o (IF Len(unsupported) > 1 THEN "s" ELSE "")
        \o ": " \o Join(unsupported, ", ")

RECURSIVE Flatten(_)
Flatten(batches) ==
    IF batches = <<>> THEN <<>> ELSE batches[1] \o Flatten(Tail(batches))

\* C2: with an unsupported option present, the warning is the first thing
\* written to the error stream, the invocation goes to the fallback subprocess
\* with the original args, the engine is never loaded, constructed or asked to
\* lint, nothing is discovered, no progress output happens, and the exit code
\* returned is the one the fallback produced.
C2_UnsupportedDelegates ==
    (Running /\ Len(findUnsupportedOptions(args)) > 0) =>
        /\ pc \in {"start", "spawn", "awaitChild", "done"}
        /\ pc # "start" => (Len(errOut) >= 1 /\ errOut[1] = UnsupportedWarning)
        /\ used \subseteq {"spawn"}
        /\ eslint = NoEngine /\ lintLog = <<>> /\ fixCalls = 0 /\ thrown = <<>>
        /\ bar = NoBar
        /\ \A k \in 1..Len(errOut) : errOut[k] \notin {"Discovering files...", "Linted files in"}
        /\ child.spawned => child.argv = <<"npx", "eslint">> \o args
        /\ exitCode # <<>> => (child.settled /\ exitCode = <<child.result.exitCode>>)
        /\ pc = "done" => exitCode # <<>>

\* C2 witness: an invocation with two unsupported options ended with the
\* fallback's exit code 2.
C2_Witness ==
    /\ Running /\ pc = "done"
    /\ Len(findUnsupportedOptions(args)) = 2
    /\ child.settled /\ child.result.exitCode = 2
    /\ exitCode = <<2>>

NonDiscoveryFailure == \E k \in 1..Len(thrown) : thrown[k] # "globby"

FallbackRan ==
    /\ child.spawned => child.argv = <<"npx", "eslint">> \o args
    /\ pc = "done" => (child.settled /\ exitCode = <<child.result.exitCode>>)

\* C3 as claimed: a failure at any step of the enhanced path, discovery
\* included, makes runWithAPI return null, the fallback then runs with the
\* original args and its exit code is returned; nothing is raised to the caller.
C3_Original ==
    Running =>
        /\ pc # "raised"
        /\ (thrown # <<>> /\ apiResult # Pending) => (apiResult = NullResult /\ FallbackRan)

\* C3 amended: a failure of loading the engine, parsing options, constructing
\* the engine, the ignore check, a lint call, fix writing, formatter loading or
\* formatting makes runWithAPI return null instead of raising, and runESLint
\* then runs the fallback with the original args and returns its exit code; a
\* failure of discovery alone is absorbed as an empty file list and the enhanced
\* path goes on; no failure of the enhanced path reaches the caller.
C3_ClosedFailureDomain ==
    Running =>
        /\ pc # "raised"
        /\ NonDiscoveryFailure => (apiResult = NullResult /\ FallbackRan)
        /\ apiResult = NullResult => pc \in {"apiReturned", "spawn", "awaitChild", "done"}
        /\ (thrown = <<"globby">> /\ pc \notin {"discover", "filter"})
              => (api.emptyCase \/ apiResult.kind = "result")

\* C3 witness: the ignore check failed and the invocation still returned, with
\* the exit code of the fallback.
C3_Witness ==
    /\ Running /\ pc = "done"
    /\ \E k \in 1..Len(thrown) : thrown[k] = "isPathIgnored"
    /\ apiResult = NullResult
    /\ exitCode = <<child.result.exitCode>>

\* the result the event history of the subprocess calls for: decided by the
\* first close or error event, with the text of the data events before it
RECURSIVE ExpectedSpawnResult(_, _, _)
ExpectedSpawnResult(events, out, err) ==
    IF events = <<>> THEN Pending
    ELSE LET ev == events[1]
         IN  CASE ev.type = "stdout" ->
                    ExpectedSpawnResult(Tail(events), Append(out, "out"), err)
               [] ev.type = "stderr" ->
                    ExpectedSpawnResult(Tail(events), out, Append(err, "err"))
               [] ev.type = "close" ->
                    RunResult(IF ev.code = Null THEN 1 ELSE ev.code.val, out, err)
               [] ev.type = "error" ->
                    RunResult(1, <<>>, <<"Failed to spawn: spawn npx ENOENT">>)

\* C8: the fallback spawns npx eslint with the original args unmodified and,
\* whatever the order of the data, close and error events, settles exactly once
\* and never raises: a close settles it with the exit code (1 when the code is
\* null) and the text captured so far, an error with exit code 1 and a message
\* in errorOutput; later events change nothing.
C8_SpawnSettlesOnce ==
    Running =>
        /\ child.spawned => child.argv = <<"npx", "eslint">> \o args
        /\ child.resolves <= 1
        /\ child.settled <=> (child.closed \/ child.errored)
        /\ child.settled =>
              /\ child.resolves = 1
              /\ child.result = ExpectedSpawnResult(child.events, <<>>, <<>>)
        /\ pc # "raised"
        /\ (pc = "done" /\ child.spawned) => exitCode = <<child.result.exitCode>>

\* C8 witness: a subprocess killed by a signal after writing to its error
\* stream, with an error event arriving after the close.
C8_Witness ==
    /\ Running /\ child.settled
    /\ child.closed /\ child.errored
    /\ child.events = <<DataEvent("stderr"), CloseEvent(Null), ErrorEvent>>
    /\ child.result = RunResult(1, <<>>, <<"err">>)

InBatchPath ==
    /\ Running /\ ~api.emptyCase
    /\ pc \in {"batch", "outputFixes", "loadFormatter", "format"}

CeilDiv(n, d) == (n + d - 1) \div d

\* C9: with N > 0 filtered files, the lint calls made so far cover a prefix of
\* the list, in order and without repetition, in chunks of exactly 20 except
\* possibly the last; progress has advanced by exactly the number of files
\* linted so far and never beyond N; once the loop is over there were
\* ceil(N/20) calls, every file was linted once and progress equals N when the
\* indicator is stopped.
C9_BatchLoop ==
    InBatchPath =>
        LET N == Len(api.files)
            linted == Flatten(lintLog)
        IN  /\ N > 0
            /\ linted = SubSeq(api.files, 1, Len(linted))
            /\ \A k \in 1..Len(lintLog) :
                  /\ Len(lintLog[k]) \in 1..BATCH_SIZE
                  /\ k < Len(lintLog) => Len(lintLog[k]) = BATCH_SIZE
            /\ pc = "batch" /\ api.i < N => Len(linted) = api.i
            /\ bar.reported = Len(linted)
            /\ bar.reported = Len(api.allResults)
            /\ bar.reported <= N
            /\ bar.kind = "bar" => (bar.value = bar.reported /\ bar.total = N)
            /\ bar.stops <= 1
            /\ bar.stops = 1 <=> pc # "batch"
            /\ bar.stops = 1 =>
                  /\ linted = api.files
                  /\ Len(lintLog) = CeilDiv(N, BATCH_SIZE)
                  /\ bar.reported = N

\* C9 witness: three chunks (20, 20, 1) were linted and the indicator stopped.
C9_Witness ==
    /\ InBatchPath /\ bar.stops = 1
    /\ Len(lintLog) = 3
    /\ Len(lintLog[3]) = 1
    /\ bar.kind = "bar" /\ bar.value = 2 * BATCH_SIZE + 1

\* C10: whenever a fix flag was requested and the enhanced path returns a
\* result, fixes were written exactly once, after the last lint call and before
\* the formatter renders.
C10_FixesWrittenOnce ==
    (Running /\ FixRequested) =>
        /\ apiResult.kind = "result" => fixCalls = 1
        /\ pc = "format" => fixCalls = 1
        /\ fixCalls > 0 => pc \notin {"filter", "lintEmpty", "batch"}
        /\ fixCalls <= 1

\* the calls of one operation within a history h, in order
OpsIn(h, op) == SelectSeq(h, LAMBDA c : c.op = op)

CallsOf(op) == OpsIn(calls, op)

\* what discovery handed to runWithAPI: nothing when globby rejected
DiscoveredIn(h) ==
    IF OpsIn(h, "globby") = <<>> \/ ~OpsIn(h, "globby")[1].ok THEN <<>>
    ELSE OpsIn(h, "globby")[1].found

Discovered == DiscoveredIn(calls)

\* the files the ignore filter kept, from the answers of the engine
RECURSIVE KeptOf(_)
KeptOf(checks) ==
    IF checks = <<>> THEN <<>>
    ELSE (IF checks[1].ignored THEN <<>> ELSE checks[1].files) \o KeptOf(Tail(checks))

KeptFiles == KeptOf(CallsOf("isPathIgnored"))

\* discovery and the ignore filter are over and the total was tested
FilterFinished ==
    /\ CallsOf("globby") # <<>>
    /\ Len(CallsOf("isPathIgnored")) = Len(Discovered)
    /\ \A k \in 1..Len(CallsOf("isPathIgnored")) : CallsOf("isPathIgnored")[k].ok
    /\ pc # "filter"

\* C11: when the file list after discovery and the ignore filter is empty
\* (also when discovery failed and gave an empty list), the engine's lint
\* operation is invoked exactly once, with the extracted patterns and not an
\* empty list; the progress indicator is never created or started, no
\* elapsed-time line is written, and the exit code returned is the exit-code
\* rule applied to the results of that single call.
C11_EmptyListDelegates ==
    (Running /\ FilterFinished /\ KeptFiles = <<>>) =>
        LET lints == CallsOf("lintFiles")
        IN  /\ Len(lints) <= 1
            /\ pc # "lintEmpty" => Len(lints) = 1
            /\ \A k \in 1..Len(lints) :
                  lints[k].patterns = extractPatterns(args) /\ lints[k].files = <<>>
            /\ lintLog \in {<<>>, <<extractPatterns(args)>>}
            /\ bar = NoBar
            /\ \A k \in 1..Len(errOut) : errOut[k] # "Linted files in"
            /\ apiResult.kind = "result" =>
                  /\ lints[1].ok
                  /\ apiResult.exitCode =
                        calculateExitCode(SumErrors(lints[1].produced),
                                          SumWarnings(lints[1].produced),
                                          parseESLintOptions(args).maxWarnings)
                  /\ pc = "done" => exitCode = <<apiResult.exitCode>>

\* C11 witness: discovery failed with progress display enabled, the engine was
\* run once on the pattern "src", reported two warnings against a threshold of
\* one, and the invocation returned 1.
C11_Witness ==
    /\ Running /\ pc = "done"
    /\ args = <<"--max-warnings", "1", "src">>
    /\ shouldShowProgress(isTTY, env)
    /\ thrown = <<"globby">>
    /\ Len(CallsOf("lintFiles")) = 1
    /\ CallsOf("lintFiles")[1].patterns = <<"src">>
    /\ SumWarnings(CallsOf("lintFiles")[1].produced) = 2
    /\ exitCode = <<1>>

\* what an operation was asked, without what it answered
Request(c) ==
    [op |-> c.op, patterns |-> c.patterns, files |-> c.files, given |-> c.given,
     options |-> c.options]

\* the results of the lint calls of a history, accumulated
RECURSIVE ProducedIn(_)
ProducedIn(h) ==
    IF h = <<>> THEN <<>>
    ELSE (IF h[1].op = "lintFiles" THEN h[1].produced ELSE <<>>) \o ProducedIn(Tail(h))

\* the operation an invocation with arguments a asks for after the history h of
\* operations and answers, <<>> when there is none left; it is a function of a
\* and h alone: terminal, environment, progress bar and error stream do not
\* enter it
NextRequest(a, h) ==
    LET parsed == parseESLintOptions(a)
        patterns == extractPatterns(a)
        Ask(op) == Request(Call(op))
        kept == KeptOf(OpsIn(h, "isPathIgnored"))
        produced == ProducedIn(h)
        spawn == <<[Ask("spawn") EXCEPT !.patterns = <<"npx", "eslint">> \o a]>>
        loadFormatter == <<[Ask("loadFormatter") EXCEPT !.patterns = <<parsed.format>>]>>
        lintChunk(j) ==
            <<[Ask("lintFiles") EXCEPT
                 !.files = SubSeq(kept, j * BATCH_SIZE + 1,
                                  IF (j + 1) * BATCH_SIZE < Len(kept)
                                  THEN (j + 1) * BATCH_SIZE ELSE Len(kept))]>>
    IN  IF h = <<>>
        THEN (IF Len(findUnsupportedOptions(a)) > 0 THEN spawn ELSE <<Ask("import")>>)
        ELSE LET last == h[Len(h)]
             IN  CASE last.op = "spawn" -> <<>>
                   [] last.op # "spawn" /\ ~last.ok /\ last.op # "globby" -> spawn
                   [] last.ok /\ last.op = "import" ->
                        IF parsed.threw THEN spawn
                        ELSE <<[Ask("new ESLint") EXCEPT
                                  !.options = <<parsed.eslintOptions>>]>>
                   [] last.ok /\ last.op = "new ESLint" ->
                        <<[Ask("globby") EXCEPT
                             !.patterns = globPatterns(patterns, parsed.extensions)]>>
                   [] last.op = "globby" \/ (last.ok /\ last.op = "isPathIgnored") ->
                        LET n == Len(OpsIn(h, "isPathIgnored"))
                        IN  IF n < Len(DiscoveredIn(h))
                            THEN <<[Ask("isPathIgnored") EXCEPT
                                      !.files = <<DiscoveredIn(h)[n + 1]>>]>>
                            ELSE IF kept = <<>>
                            THEN <<[Ask("lintFiles") EXCEPT !.patterns = patterns]>>
                            ELSE lintChunk(0)
                   [] last.ok /\ last.op = "lintFiles" ->
                        LET j == Len(OpsIn(h, "lintFiles"))
                        IN  IF kept = <<>> THEN loadFormatter
                            ELSE IF j * BATCH_SIZE < Len(kept) THEN lintChunk(j)
                            ELSE IF parsed.eslintOptions.fix = <<TRUE>>
                            THEN <<[Ask("outputFixes") EXCEPT !.given = produced]>>
                            ELSE loadFormatter
                   [] last.ok /\ last.op = "outputFixes" -> loadFormatter
                   [] last.ok /\ last.op = "loadFormatter" ->
                        <<[Ask("format") EXCEPT !.given = produced]>>
                   [] last.ok /\ last.op = "format" -> <<>>

\* the standard-output text and the exit code an invocation ends with, from
\* its arguments, the history of operations and answers, and what the fallback
\* subprocess settled with
Outcome(a, h, settledWith) ==
    LET last == h[Len(h)]
    IN  IF last.op = "format"
        THEN [stdOut |-> last.text,
              exitCode |-> calculateExitCode(SumErrors(ProducedIn(h)),
                                             SumWarnings(ProducedIn(h)),
                                             parseESLintOptions(a).maxWarnings)]
        ELSE [stdOut |-> settledWith.output, exitCode |-> settledWith.exitCode]

C12_WitnessNoDisplay ==
    /\ Running /\ pc = "done"
    /\ ~shouldShowProgress(isTTY, env)
    /\ args = <<"src", "--fix">>
    /\ Len(CallsOf("isPathIgnored")) = MaxFiles
    /\ Len(CallsOf("lintFiles")) = 3
    /\ Len(CallsOf("outputFixes")) = 1
    /\ calls[Len(calls)].op = "format" /\ calls[Len(calls)].ok
    /\ stdOut # <<>>
    /\ exitCode = <<1>>

\* the token examined by the gate at position k is an option it supports
GateSupports(a, k) ==
    /\ GateExamined(a, k)
    /\ StartsWith(a[k], "-")
    /\ OptionName(a[k]) \in SUPPORTED_FLAGS \cup SUPPORTED_OPTIONS_WITH_VALUES

\* that option as name and value: split at the first "=" in 'name=value' form,
\* else the token and the one after it
NameAndValue(a, k) ==
    IF Includes(a[k], "=")
    THEN <<OptionName(a[k]), SubSeq(a[k], IndexOf(a[k], "=") + 1, Len(a[k]))>>
    ELSE IF k + 1 <= Len(a) THEN <<a[k], a[k + 1]>> ELSE <<a[k]>>

\* the parser's own handling of an option, applied to every option the gate
\* supports, in order
RECURSIVE ApplyAccepted(_, _, _)
ApplyAccepted(st, a, k) ==
    IF k > Len(a) THEN st
    ELSE IF GateSupports(a, k)
    THEN ApplyAccepted(ParseOptionsBody([st EXCEPT !.i = 1], NameAndValue(a, k)),
                       a, k + 1)
    ELSE ApplyAccepted(st, a, k + 1)

GateAccepts(a) == findUnsupportedOptions(a) = <<>>

\* C13: gate and parser agree. For every token sequence the gate accepts, the
\* options parseESLintOptions returns are those obtained by applying every
\* option the gate treated as supported, given as 'name value' or as
\* 'name=value'; no accepted option is dropped.
C13_GateParserAgree ==
    (Returned("parseESLintOptions") /\ GateAccepts(args)) =>
        ret[1] = ParseOptionsResult(ApplyAccepted(ParseOptionsInit, args, 1))

\* what does hold: the agreement for accepted sequences in which no option is
\* written as 'name=value'
GateParserAgreeWithoutEquals ==
    (/\ Returned("parseESLintOptions") /\ GateAccepts(args)
     /\ \A k \in 1..Len(args) : ~Includes(args[k], "="))
        => ret[1] = ParseOptionsResult(ApplyAccepted(ParseOptionsInit, args, 1))

\* an accepted '--config=x' that left the override config file unset
ConfigEqualsDropped ==
    /\ Returned("parseESLintOptions") /\ GateAccepts(args)
    /\ args = <<"--config=x", "src">>
    /\ ret[1].eslintOptions.overrideConfigFile = <<>>

\* C14: files are analysed by at most one path per invocation: whenever the
\* fallback subprocess is spawned, the embedded engine has completed no lint
\* call and has written no fixes during that invocation.
C14_OnePathPerInvocation ==
    (Running /\ child.spawned) => (lintLog = <<>> /\ fixCalls = 0)

\* what does hold: a fallback that the gate or a failure before the first lint
\* call caused finds no lint call completed and no fixes written
FallbackBeforeLinting ==
    (/\ Running /\ child.spawned
     /\ \/ ~GateAccepts(args)
        \/ thrown[Len(thrown)] \in {"import", "parseESLintOptions", "new ESLint",
                                    "isPathIgnored"})
        => (lintLog = <<>> /\ fixCalls = 0)

\* the engine linted every file and wrote the fixes, the formatter could not be
\* loaded, and the subprocess was spawned on the same arguments
FixedThenSpawned ==
    /\ Running /\ child.spawned
    /\ args = <<"src", "--fix">>
    /\ Len(lintLog) = 3 /\ fixCalls = 1
    /\ thrown = <<"loadFormatter">>
    /\ child.argv = <<"npx", "eslint", "src", "--fix">>

\* C15: every progress indicator that was started has been stopped when
\* runESLint returns, on every path, the one where a batch lint call fails and
\* the run falls back to the subprocess included; the indicator holds no
\* increment made before it was started or after it was stopped.
C15_BarAlwaysStopped ==
    Running =>
        /\ pc = "done" => ~bar.active
        /\ bar.value > 0 => (bar.kind = "bar" /\ bar.value <= bar.total)
        /\ bar.stops <= 1

\* what does hold: the indicator is stopped at the return unless a batch lint
\* call failed while it was running
BarStoppedUnlessBatchFailed ==
    (Running /\ pc = "done" /\ bar.active) =>
        (thrown = <<"lintFiles">> /\ child.spawned /\ bar.stops = 0)

\* what does hold: the widget advances only between its start and its stop
IncrementOnlyWhileStarted ==
    [][(bar'.value > bar.value) => (bar.active /\ bar.started /\ bar'.started)]_vars

\* runESLint returned the fallback's exit code after the second chunk failed,
\* with the indicator started on 21 files and never stopped
ReturnedWithBarRunning ==
    /\ Running /\ pc = "done"
    /\ args = <<"src">>
    /\ bar.active /\ bar.stops = 0
    /\ Len(lintLog) = 1 /\ Len(lintLog[1]) = BATCH_SIZE
    /\ thrown = <<"lintFiles">>
    /\ exitCode = <<child.result.exitCode>>

====
